---- MODULE Spec2Model ----
(***************************************************************************)
(* The AI annotation worker of python-analyzer: one imaging study in the   *)
(* document store, one worker process, and the two persistence shapes the  *)
(* repository carries:                                                     *)
(*   "queue"   - process_study_request and its poll loop, src/ai_worker.py *)
(*   "polling" - process_study and poll_forever,                           *)
(*               src/backup files/June 7/ai_worker_3.py                    *)
(* A deployment runs one of the two; Init picks it.  Every store call,     *)
(* blob call and model call of a pass is one step, so that a kill of the   *)
(* process or an exception can fall between any two of them.               *)
(***************************************************************************)
EXTENDS Integers, Sequences, FiniteSets, TLC

\* ---------------------------------------------------------------- bounds
MaxImages == 2          \* longest image-locator list tried
MaxRequests == 2        \* most aiRequests entries the request path appends
MaxFindings == 2        \* most findings in one reply of the vision model
MaxStudies == 3         \* most studies in the collection

\* ------------------------------------------------------------- constants
FailCeiling == 3        \* the retry budget the specification names

Keys == 1..MaxImages
Variants == {"queue", "polling"}
None == 0 - 1           \* Python None / absent field

FixedSentence == "No significant abnormalities detected in this study."

VARIABLES
    variant,        \* which worker is deployed
    doc,            \* the study document in the collection
    pc,             \* position of the worker
    study,          \* the worker's in-memory copy of the document (find)
    req_ts,         \* requestedAt of the selected pending request
    idx,            \* position of the per-image loop in the locator list
    finds,          \* findings of the image being processed
    new_caps,       \* Captions collected by this pass
    finds_list,     \* findings lists collected for the summarizer
    summary,        \* result of summarise_study in this pass
    reread,         \* what the finalize step read back from the store
    attempted,      \* observer: loop positions this pass has fetched
    lastCall,       \* the external call made by the last step
    failStreak,     \* observer: consecutive failed attempts on locator Watched
    resp,           \* one image followed alone: the model's reply for it
    outcome,        \* one image followed alone: what became of it
    tick,           \* one tick followed alone: the studies it selected
    inst,           \* two worker instances on one study: each one's pass
    coll,           \* many studies, one worker: what each study still needs
    env             \* the start of a program: its environment, what it served

vars == <<variant, doc, pc, study, req_ts, idx, finds, new_caps, finds_list,
          summary, reread, attempted, lastCall, failStreak, resp, outcome,
          tick, inst, coll, env>>

\* the variables of the single-image, single-tick, two-instance, many-study
\* and startup views; the steps of the worker on its study leave them alone
aside == <<resp, outcome, tick, inst, coll, env>>

locals == <<study, req_ts, idx, finds, new_caps, finds_list, summary, reread,
            attempted>>

\* ------------------------------------------------------------ data shapes
NoSummary == [text |-> "", of |-> <<>>]
\* lastCall: op and arg name the call; fault marks a store call that raised
\* or a kill of the process (a failure of one image is not a fault)
NoCall == [op |-> "none", arg |-> None, fault |-> FALSE]
Call(op, arg) == [op |-> op, arg |-> arg, fault |-> FALSE]
Fault(op) == [op |-> op, arg |-> None, fault |-> TRUE]
StoreCall(op, ok) == IF ok THEN Call(op, None) ELSE Fault(op)

Min(a, b) == IF a < b THEN a ELSE b

RECURSIVE SumSeq(_)
\* number of findings in the flattened list: all_findings.extend(...)
SumSeq(s) == IF s = <<>> THEN 0 ELSE Head(s) + SumSeq(Tail(s))

\* generate_presigned_url: a signed URL of the key, never the key itself
PresignedUrl(key) == 100 + key

NewRequest(ts) ==
    [requestedAt |-> ts, status |-> "pending",
     interpretation |-> <<>>, completedAt |-> FALSE]

NewDoc(locs, v) ==
    [locators |-> locs,
     analysisRequested |-> (v = "polling"),
     aiRequests |-> <<>>,
     previewCount |-> None,
     enhancedCaptions |-> <<>>,
     aggregateSummary |-> NoSummary]

\* Locator lists up to renaming of the locators: the first locator is 1 and
\* a new locator is the least one not used yet.  Lists with repeats included.
Canonical(l) ==
    \A i \in 1..Len(l) :
        l[i] = 1 \/ \E j \in 1..(i - 1) : l[j] = l[i] - 1

LocatorLists ==
    {l \in UNION {[1..n -> Keys] : n \in 0..MaxImages} : Canonical(l)}

\* the locator whose failures are counted: the first one of every list
Watched == CHOOSE k \in Keys : \A j \in Keys : k <= j

\* ------------------------------------------------- pure parts of the code
\* {"aiRequests": {"$elemMatch": {"status": "pending"}}}
HasPending(reqs) == \E i \in 1..Len(reqs) : reqs[i].status = "pending"

\* next((r for r in aiRequests if r.status == "pending"), None): its position
FirstPending(reqs) ==
    IF HasPending(reqs)
    THEN CHOOSE i \in 1..Len(reqs) :
            /\ reqs[i].status = "pending"
            /\ \A j \in 1..(i - 1) : reqs[j].status # "pending"
    ELSE 0

\* the element the positional operator aiRequests.$ binds to: the first one
\* that satisfies the array condition of the query, requestedAt = ts
Positional(reqs, ts) ==
    IF \E i \in 1..Len(reqs) : reqs[i].requestedAt = ts
    THEN CHOOSE i \in 1..Len(reqs) :
            /\ reqs[i].requestedAt = ts
            /\ \A j \in 1..(i - 1) : reqs[j].requestedAt # ts
    ELSE 0

\* alternative: the status is set by an update of its own, before the
\* interpretation and completedAt
SetCompleted_StatusOnly(reqs, ts, caps, summ) ==
    LET i == Positional(reqs, ts) IN
    IF i = 0 THEN reqs
    ELSE [reqs EXCEPT ![i].status = "completed"]

\* the $set of the queue write-back
SetCompleted(reqs, ts, caps, summ) ==
    LET i == Positional(reqs, ts) IN
    IF i = 0 THEN reqs
    ELSE [reqs EXCEPT ![i] =
            [requestedAt |-> reqs[i].requestedAt,
             status |-> "completed",
             interpretation |-> <<[enhancedCaptions |-> caps,
                                  aggregateSummary |-> summ]>>,
             completedAt |-> TRUE]]

\* done_urls = {c["url"] for c in aiInterpretation.enhancedCaptions}
done_urls(st) == {st.enhancedCaptions[i].url : i \in 1..Len(st.enhancedCaptions)}

\* alternative: the done-set is not consulted
Skipped_Never(v, st, i) == FALSE

\* polling: "if url in done_urls: continue"; queue: every key is processed
Skipped(v, st, i) == v = "polling" /\ st.locators[i] \in done_urls(st)

\* first loop position at or after i whose locator is processed
NextIdx(v, st, i) ==
    LET n == Len(st.locators)
        todo == {j \in i..n : ~Skipped(v, st, j)}
    IN IF todo = {} THEN n + 1
       ELSE CHOOSE j \in todo : \A k \in todo : j <= k

\* Caption.url: the locator itself (polling), a presigned URL of the key (queue)
CaptionUrl(v, loc) == IF v = "polling" THEN loc ELSE PresignedUrl(loc)

Caption(v, loc, f) == [url |-> CaptionUrl(v, loc), finds |-> f]

\* alternative: no fallback, a failed model call leaves the summary empty
summarise_study_NoFallback(arrays, ok) ==
    IF SumSeq(arrays) = 0
    THEN [result |-> [text |-> FixedSentence, of |-> <<>>], calls |-> 0]
    ELSE IF ok
         THEN [result |-> [text |-> "model", of |-> arrays], calls |-> 1]
         ELSE [result |-> NoSummary, calls |-> 1]

\* alternative: no early return for an empty finding list
summarise_study_AlwaysCalls(arrays, ok) ==
    IF ok
    THEN [result |-> [text |-> "model", of |-> arrays], calls |-> 1]
    ELSE [result |-> [text |-> "fallback", of |-> arrays], calls |-> 1]

\* summarise_study of src/ai_worker.py; ok: the model call succeeds.
\* result: the string returned, calls: model calls made
summarise_study(arrays, ok) ==
    IF SumSeq(arrays) = 0
    THEN [result |-> [text |-> FixedSentence, of |-> <<>>], calls |-> 0]
    ELSE IF ok
         THEN [result |-> [text |-> "model", of |-> arrays], calls |-> 1]
         ELSE [result |-> [text |-> "fallback", of |-> arrays], calls |-> 1]

\* summarise_study of the June 7 worker with its caller's try/except
summarise_study_polling(arrays, ok) ==
    IF ok
    THEN [result |-> [text |-> "model", of |-> arrays], calls |-> 1]
    ELSE [result |-> NoSummary, calls |-> 1]

Summarise(v, arrays, ok) ==
    IF v = "queue" THEN summarise_study(arrays, ok)
    ELSE summarise_study_polling(arrays, ok)

\* alternative: complete as soon as one Caption exists
FullyAnnotated_AnyCaption(nCaptions, previewCount) == nCaptions >= 1

\* the completion test of the polling finalize step
FullyAnnotated(nCaptions, previewCount) == nCaptions >= previewCount

\* where the worker goes when a pass returns / when an exception reaches the loop
ReturnPc(v) == IF v = "queue" THEN "sleep" ELSE "poll"

\* alternative: no handler around the tick, the exception ends the process
ExceptPc_Uncaught == "stopped"

\* "except Exception as e: ..." of the loop, then time.sleep
ExceptPc == "sleep"

NoStudy == NewDoc(<<>>, "queue")
NoReread == [count |-> None, previewCount |-> None]

\* idle values of the single-image and single-tick views
NoResponse ==
    [parses |-> FALSE, hasCaption |-> FALSE, hasFindings |-> FALSE, bboxes |-> <<>>]
NoOutcome == [kind |-> "none"]
NoInst == <<>>
NoEnv == [program |-> "none", present |-> {}, served |-> "none"]
NoColl == <<>>
NoTick == [selected |-> <<>>, next |-> 0, dispatched |-> {}, raised |-> None]

\* ------------------------------------------------------------------ Init
Init ==
    /\ variant \in Variants
    /\ \E locs \in LocatorLists : doc = NewDoc(locs, variant)
    /\ pc = "poll"
    /\ study = NoStudy
    /\ req_ts = None
    /\ idx = 0
    /\ finds = 0
    /\ new_caps = <<>>
    /\ finds_list = <<>>
    /\ summary = NoSummary
    /\ reread = NoReread
    /\ attempted = {}
    /\ lastCall = NoCall
    /\ failStreak = 0
    /\ resp = NoResponse
    /\ outcome = NoOutcome
    /\ tick = NoTick
    /\ inst = NoInst
    /\ coll = NoColl
    /\ env = NoEnv

\* ------------------------------------------------------- shared fragments
\* the pass is over (return, exception or kill): its locals are gone
EndPass(next) ==
    /\ pc' = next
    /\ study' = NoStudy
    /\ req_ts' = None
    /\ idx' = 0
    /\ finds' = 0
    /\ new_caps' = <<>>
    /\ finds_list' = <<>>
    /\ summary' = NoSummary
    /\ reread' = NoReread
    /\ attempted' = {}

\* the for loop moves on from position i of the locator list st.locators
LoopFrom(st, i) ==
    /\ idx' = NextIdx(variant, st, i)
    /\ pc' = IF idx' <= Len(st.locators) THEN "fetch" ELSE "endloop"

Loc == study.locators[idx]

\* the watched locator occurs once in the list: each of its failures is
\* the failure of one pass
WatchedOnce ==
    Cardinality({i \in 1..Len(doc.locators) : doc.locators[i] = Watched}) = 1

\* the streak of the watched locator after a failed / a successful attempt
Failed(loc) ==
    IF loc = Watched /\ WatchedOnce
    THEN Min(failStreak + 1, FailCeiling) ELSE failStreak

Succeeded(loc) == IF loc = Watched THEN 0 ELSE failStreak

\* "except ...: continue": this image failed, the loop goes on
ContinueAfterFailure ==
    /\ failStreak' = Failed(Loc)
    /\ LoopFrom(study, idx + 1)
    /\ finds' = 0

\* --------------------------------------------------------------- actions
\* the poll query: coll.find({...}).limit(5)
Eligible(v, d) ==
    /\ d.analysisRequested
    /\ v = "queue" => HasPending(d.aiRequests)

\* alternative: a tick that finds nothing to do re-arms the study
Poll_Rearms ==
    /\ UNCHANGED aside
    /\ pc = "poll"
    /\ \E ok \in BOOLEAN :
        /\ lastCall' = StoreCall("find", ok)
        /\ IF ok /\ Eligible(variant, doc)
           THEN /\ pc' = "begin"
                /\ study' = doc
                /\ UNCHANGED <<variant, doc, req_ts, idx, finds, new_caps,
                               finds_list, summary, reread, attempted, failStreak>>
           ELSE /\ pc' = "sleep"
                /\ doc' = [doc EXCEPT !.analysisRequested = TRUE]
                /\ UNCHANGED <<variant, locals, failStreak>>

Poll ==
    /\ UNCHANGED aside
    /\ pc = "poll"
    /\ \E ok \in BOOLEAN :
        /\ lastCall' = StoreCall("find", ok)
        /\ IF ok /\ Eligible(variant, doc)
           THEN /\ pc' = "begin"
                /\ study' = doc
                /\ UNCHANGED <<variant, doc, req_ts, idx, finds, new_caps,
                               finds_list, summary, reread, attempted, failStreak>>
           ELSE /\ pc' = "sleep"
                /\ UNCHANGED <<variant, doc, locals, failStreak>>

Sleep ==
    /\ UNCHANGED aside
    /\ pc = "sleep"
    /\ pc' = "poll"
    /\ lastCall' = Call("sleep", None)
    /\ UNCHANGED <<variant, doc, locals, failStreak>>

\* process_study_request, lines 290-296: select the first pending request
BeginRequest ==
    /\ UNCHANGED aside
    /\ pc = "begin"
    /\ variant = "queue"
    /\ lastCall' = NoCall
    /\ LET p == FirstPending(study.aiRequests) IN
        IF p = 0
        THEN /\ EndPass(ReturnPc(variant))
             /\ UNCHANGED <<variant, doc, failStreak>>
        ELSE /\ req_ts' = study.aiRequests[p].requestedAt
             /\ LoopFrom(study, 1)
             /\ UNCHANGED <<variant, doc, study, finds, new_caps, finds_list,
                            summary, reread, attempted, failStreak>>

\* alternative: a stored 0 counts as never set ("if not previewCount")
NeverSet_Falsy(st) == st.previewCount = None \/ st.previewCount = 0

\* study.get("previewCount") is None
NeverSet(st) == st.previewCount = None

\* process_study, lines 128-136: previewCount is set on first touch
InitPreviewCount ==
    /\ UNCHANGED aside
    /\ pc = "begin"
    /\ variant = "polling"
    /\ IF NeverSet(study)
       THEN \E ok \in BOOLEAN :
            /\ lastCall' = StoreCall("update", ok)
            /\ IF ok
               THEN /\ doc' = [doc EXCEPT !.previewCount = Len(study.locators)]
                    /\ study' = [study EXCEPT !.previewCount = Len(study.locators)]
                    /\ LoopFrom(study, 1)
                    /\ UNCHANGED <<variant, req_ts, finds, new_caps, finds_list,
                                   summary, reread, attempted, failStreak>>
               ELSE /\ EndPass(ExceptPc)
                    /\ UNCHANGED <<variant, doc, failStreak>>
       ELSE /\ lastCall' = NoCall
            /\ LoopFrom(study, 1)
            /\ UNCHANGED <<variant, doc, study, req_ts, finds, new_caps,
                           finds_list, summary, reread, attempted, failStreak>>

\* fetch_jpeg_by_key / fetch_jpeg_from_s3
Fetch ==
    /\ UNCHANGED aside
    /\ pc = "fetch"
    /\ lastCall' = Call("fetch", Loc)
    /\ attempted' = attempted \cup {idx}
    /\ \E ok \in BOOLEAN :
        IF ok
        THEN /\ pc' = "analyse"
             /\ UNCHANGED <<variant, doc, study, req_ts, idx, finds, new_caps,
                            finds_list, summary, reread, failStreak>>
        ELSE /\ ContinueAfterFailure
             /\ UNCHANGED <<variant, doc, study, req_ts, new_caps, finds_list,
                            summary, reread>>

\* analyse_image_bytes / analyse_image; f: length of the findings list.
\* The June 7 worker appends to finds_list here, before the upload.
Analyse ==
    /\ UNCHANGED aside
    /\ pc = "analyse"
    /\ lastCall' = Call("analyse", Loc)
    /\ \E ok \in BOOLEAN, f \in 0..1 :
        IF ok
        THEN /\ pc' = "annotate"
             /\ finds' = f
             /\ finds_list' = IF variant = "polling"
                              THEN Append(finds_list, f) ELSE finds_list
             /\ UNCHANGED <<variant, doc, study, req_ts, idx, new_caps,
                            summary, reread, attempted, failStreak>>
        ELSE /\ ContinueAfterFailure
             /\ UNCHANGED <<variant, doc, study, req_ts, new_caps, finds_list,
                            summary, reread, attempted>>

\* draw_annotations: inside the try of the queue worker, outside every try
\* of the June 7 worker (line 148), where its exception ends the pass
Annotate ==
    /\ UNCHANGED aside
    /\ pc = "annotate"
    /\ lastCall' = NoCall
    /\ \E ok \in BOOLEAN :
        IF ok
        THEN /\ pc' = "upload"
             /\ UNCHANGED <<variant, doc, locals, failStreak>>
        ELSE IF variant = "queue"
             THEN /\ ContinueAfterFailure
                  /\ UNCHANGED <<variant, doc, study, req_ts, new_caps,
                                 finds_list, summary, reread, attempted>>
             ELSE /\ failStreak' = Failed(Loc)
                  /\ EndPass(ExceptPc)
                  /\ UNCHANGED <<variant, doc>>

\* s3.put_object, generate_presigned_url, new_caps.append
Upload ==
    /\ UNCHANGED aside
    /\ pc = "upload"
    /\ \E out \in {"ok", "put_failed", "presign_failed"} :
        /\ lastCall' = Call(IF out = "put_failed" THEN "put_failed" ELSE "put", Loc)
        /\ IF out = "ok"
           THEN /\ new_caps' = Append(new_caps, Caption(variant, Loc, finds))
                /\ finds_list' = IF variant = "queue"
                                 THEN Append(finds_list, finds) ELSE finds_list
                /\ failStreak' = Succeeded(Loc)
                /\ LoopFrom(study, idx + 1)
                /\ finds' = 0
                /\ UNCHANGED <<variant, doc, study, req_ts, summary, reread,
                               attempted>>
           ELSE /\ ContinueAfterFailure
                /\ UNCHANGED <<variant, doc, study, req_ts, new_caps,
                               finds_list, summary, reread, attempted>>

\* alternative: no early return, an empty batch goes on to the write-back
EndLoop_NoEarlyReturn ==
    /\ UNCHANGED aside
    /\ pc = "endloop"
    /\ lastCall' = NoCall
    /\ pc' = "summarise"
    /\ UNCHANGED <<variant, doc, locals, failStreak>>

\* "if not new_caps: return"
EndLoop ==
    /\ UNCHANGED aside
    /\ pc = "endloop"
    /\ lastCall' = NoCall
    /\ IF new_caps = <<>>
       THEN /\ EndPass(ReturnPc(variant))
            /\ UNCHANGED <<variant, doc, failStreak>>
       ELSE /\ pc' = "summarise"
            /\ UNCHANGED <<variant, doc, locals, failStreak>>

\* summary = summarise_study(...)
SummariseStep ==
    /\ UNCHANGED aside
    /\ pc = "summarise"
    /\ \E ok \in BOOLEAN :
        LET r == Summarise(variant, finds_list, ok) IN
        /\ summary' = r.result
        /\ lastCall' = IF r.calls = 0 THEN NoCall
                       ELSE IF ok THEN Call("summarize", None)
                       ELSE Call("summarize_failed", None)
    /\ pc' = "writeback"
    /\ UNCHANGED <<variant, doc, study, req_ts, idx, finds, new_caps,
                   finds_list, reread, attempted, failStreak>>

\* alternative: one update per Caption, of which only the first is made
WrittenBack_FirstOnly(v, d, ts, caps, summ) ==
    IF v = "queue"
    THEN [d EXCEPT !.aiRequests = SetCompleted(@, ts, <<Head(caps)>>, summ)]
    ELSE [d EXCEPT !.enhancedCaptions = @ \o <<Head(caps)>>,
                   !.aggregateSummary = summ]

\* the document after the single update_one of the write-back
WrittenBack(v, d, ts, caps, summ) ==
    IF v = "queue"
    THEN [d EXCEPT !.aiRequests = SetCompleted(@, ts, caps, summ)]
    ELSE [d EXCEPT !.enhancedCaptions = @ \o caps,
                   !.aggregateSummary = summ]

WriteBack ==
    /\ UNCHANGED aside
    /\ pc = "writeback"
    /\ \E ok \in BOOLEAN :
        /\ lastCall' = StoreCall("update", ok)
        /\ IF ok
           THEN /\ doc' = WrittenBack(variant, doc, req_ts, new_caps, summary)
                /\ pc' = "reread"
                /\ UNCHANGED <<variant, locals, failStreak>>
           ELSE /\ EndPass(ExceptPc)
                /\ UNCHANGED <<variant, doc, failStreak>>

\* queue: remaining = coll.count_documents({_id, aiRequests: pending})
\* polling: doc = coll.find_one({_id}, {enhancedCaptions, previewCount})
Reread(v, d) ==
    IF v = "queue"
    THEN [count |-> IF HasPending(d.aiRequests) THEN 1 ELSE 0,
          previewCount |-> None]
    ELSE [count |-> Len(d.enhancedCaptions), previewCount |-> d.previewCount]

RereadStep ==
    /\ UNCHANGED aside
    /\ pc = "reread"
    /\ \E ok \in BOOLEAN :
        /\ lastCall' = StoreCall(IF variant = "queue" THEN "count" ELSE "find_one", ok)
        /\ IF ok
           THEN /\ reread' = Reread(variant, doc)
                /\ pc' = "finalize"
                /\ UNCHANGED <<variant, doc, study, req_ts, idx, finds, new_caps,
                               finds_list, summary, attempted, failStreak>>
           ELSE /\ EndPass(ExceptPc)
                /\ UNCHANGED <<variant, doc, failStreak>>

\* "if remaining == 0" / "if len(enhancedCaptions) >= previewCount"
Done(v, rr) ==
    IF v = "queue" THEN rr.count = 0
    ELSE FullyAnnotated(rr.count, rr.previewCount)

Finalize ==
    /\ UNCHANGED aside
    /\ pc = "finalize"
    /\ IF Done(variant, reread)
       THEN \E ok \in BOOLEAN :
            /\ lastCall' = StoreCall("update", ok)
            /\ IF ok
               THEN /\ doc' = [doc EXCEPT !.analysisRequested = FALSE]
                    /\ EndPass(ReturnPc(variant))
               ELSE /\ doc' = doc
                    /\ EndPass(ExceptPc)
       ELSE /\ lastCall' = NoCall
            /\ doc' = doc
            /\ EndPass(ReturnPc(variant))
    /\ UNCHANGED <<variant, failStreak>>

\* the process is killed inside a pass and started again
Crash ==
    /\ UNCHANGED aside
    /\ pc \notin {"poll", "sleep"}
    /\ lastCall' = Fault("restart")
    /\ EndPass("poll")
    /\ UNCHANGED <<variant, doc, failStreak>>

\* the request-initiation path (outside this repository): one more pending
\* request, with a fresh requestedAt or that of the request before it
Enqueue ==
    /\ UNCHANGED aside
    /\ variant = "queue"
    /\ Len(doc.aiRequests) < MaxRequests
    /\ LET n == Len(doc.aiRequests) IN
       \E ts \in {n + 1} \cup {doc.aiRequests[i].requestedAt : i \in {n} \ {0}} :
            doc' = [doc EXCEPT !.aiRequests = Append(@, NewRequest(ts)),
                               !.analysisRequested = TRUE]
    /\ UNCHANGED <<variant, pc, locals, lastCall, failStreak>>

\* the upload path (outside this repository) adds an image to a study of the
\* polling worker: a new locator at the end of imageUrls
AddImage ==
    /\ UNCHANGED aside
    /\ variant = "polling"
    /\ Len(doc.locators) < MaxImages
    /\ LET used == {doc.locators[i] : i \in 1..Len(doc.locators)}
           fresh == CHOOSE k \in Keys \ used : \A j \in Keys \ used : k <= j
       IN doc' = [doc EXCEPT !.locators = Append(@, fresh)]
    /\ UNCHANGED <<variant, pc, locals, lastCall, failStreak>>

Next ==
    \/ Poll
    \/ Sleep
    \/ BeginRequest
    \/ InitPreviewCount
    \/ Fetch
    \/ Analyse
    \/ Annotate
    \/ Upload
    \/ EndLoop
    \/ SummariseStep
    \/ WriteBack
    \/ RereadStep
    \/ Finalize
    \/ Crash
    \/ Enqueue
    \/ AddImage

Spec == Init /\ [][Next]_vars

\* the worker's own steps: a single thread that always takes its next step
WorkerStep ==
    \/ Poll
    \/ Sleep
    \/ BeginRequest
    \/ InitPreviewCount
    \/ Fetch
    \/ Analyse
    \/ Annotate
    \/ Upload
    \/ EndLoop
    \/ SummariseStep
    \/ WriteBack
    \/ RereadStep
    \/ Finalize

FairSpec == Spec /\ WF_vars(WorkerStep)

\* a deployment of the polling worker alone
PollingNext ==
    \/ Poll
    \/ Sleep
    \/ InitPreviewCount
    \/ Fetch
    \/ Analyse
    \/ Annotate
    \/ Upload
    \/ EndLoop
    \/ SummariseStep
    \/ WriteBack
    \/ RereadStep
    \/ Finalize
    \/ Crash
    \/ AddImage

PollingInit == Init /\ variant = "polling"

PollingSpec == PollingInit /\ [][PollingNext]_vars

\* ======================================================================
\* One image followed alone: the reply of the vision model, its parsing, the
\* annotation and what the loop body makes of it (fetch and upload succeed)
\* ======================================================================
\* what the "bbox" of a finding can be:
\*   absent - no such key          null   - the key with value null
\*   empty  - []                   short  - a list of 1 to 3 numbers
\*   scalar - a non-zero number    valid  - a list of 4 numbers
BBoxKinds == {"absent", "null", "empty", "short", "scalar", "valid"}

\* replies of the model: text that is not JSON, or a JSON object with or
\* without its "caption" and "findings" fields
Responses ==
    {NoResponse}
    \cup [parses : {TRUE}, hasCaption : BOOLEAN, hasFindings : {FALSE},
          bboxes : {<<>>}]
    \cup [parses : {TRUE}, hasCaption : BOOLEAN, hasFindings : {TRUE},
          bboxes : UNION {[1..n -> BBoxKinds] : n \in 0..MaxFindings}]

\* analyse_image_bytes / analyse_image: json.loads of the reply
analyse_image_bytes(r) == [raised |-> ~r.parses, res |-> r]

\* one turn of the loop over the findings in draw_annotations.
\* src/ai_worker.py:   bbox = f.get("bbox", []);  if len(bbox) == 4: ...
\* June 7 worker:      bbox = f.get("bbox");      if bbox: x,y,bw,bh = bbox
DrawBox(v, kind) ==
    IF v = "queue"
    THEN CASE kind \in {"absent", "empty", "short"} -> "skip"
           [] kind \in {"null", "scalar"} -> "raise"
           [] kind = "valid" -> "rectangle"
    ELSE CASE kind \in {"absent", "null", "empty"} -> "skip"
           [] kind \in {"short", "scalar"} -> "raise"
           [] kind = "valid" -> "rectangle"

draw_annotations(v, bboxes) ==
    [raised |-> \E i \in 1..Len(bboxes) : DrawBox(v, bboxes[i]) = "raise",
     rectangles |->
        Cardinality({i \in 1..Len(bboxes) : DrawBox(v, bboxes[i]) = "rectangle"})]

\* the loop body on one image: res.get("caption", ""), res.get("findings", []),
\* draw_annotations, new_caps.append
ImageOutcome(v, r) ==
    IF analyse_image_bytes(r).raised THEN [kind |-> "failed"]
    ELSE LET findings == IF r.hasFindings THEN r.bboxes ELSE <<>>
             ann == draw_annotations(v, findings)
         IN IF ann.raised
            THEN [kind |-> IF v = "queue" THEN "failed" ELSE "aborted"]
            ELSE [kind |-> "captioned",
                  defaultCaption |-> ~r.hasCaption,
                  defaultFindings |-> ~r.hasFindings,
                  rectangles |-> ann.rectangles]

ImageInit ==
    /\ variant \in Variants
    /\ doc = NewDoc(<<Watched>>, variant)
    /\ pc = "image"
    /\ study = NoStudy
    /\ req_ts = None
    /\ idx = 0
    /\ finds = 0
    /\ new_caps = <<>>
    /\ finds_list = <<>>
    /\ summary = NoSummary
    /\ reread = NoReread
    /\ attempted = {}
    /\ lastCall = NoCall
    /\ failStreak = 0
    /\ resp \in Responses
    /\ outcome = NoOutcome
    /\ tick = NoTick
    /\ inst = NoInst
    /\ coll = NoColl
    /\ env = NoEnv

ProcessImage ==
    /\ pc = "image"
    /\ outcome' = ImageOutcome(variant, resp)
    /\ pc' = "imaged"
    /\ UNCHANGED <<variant, doc, locals, lastCall, failStreak, resp, tick,
                   inst, coll, env>>

ImageNext ==
    \/ ProcessImage

ImageSpec == ImageInit /\ [][ImageNext]_vars

\* ======================================================================
\* One tick of the poll loop followed alone: the studies the query selects
\* and the dispatch of each, a dispatch being one step that returns or raises
\* ======================================================================
StudyIds == 1..MaxStudies

QueryLimit == 5         \* .limit(5) of the poll query

Orderings(S) ==
    {q \in [1..Cardinality(S) -> S] : \A i, j \in DOMAIN q : q[i] = q[j] => i = j}

\* list(coll.find(...).limit(5)): at most QueryLimit of the matching
\* studies, in an order the query does not fix
QuerySets(matching) ==
    {U \in SUBSET matching :
        Cardinality(U) = Min(Cardinality(matching), QueryLimit)}

QueryResults(matching) == UNION {Orderings(T) : T \in QuerySets(matching)}

TickInit ==
    /\ variant \in Variants
    /\ doc = NewDoc(<<>>, variant)
    /\ pc = "tick_poll"
    /\ study = NoStudy
    /\ req_ts = None
    /\ idx = 0
    /\ finds = 0
    /\ new_caps = <<>>
    /\ finds_list = <<>>
    /\ summary = NoSummary
    /\ reread = NoReread
    /\ attempted = {}
    /\ lastCall = NoCall
    /\ failStreak = 0
    /\ resp = NoResponse
    /\ outcome = NoOutcome
    /\ tick = NoTick
    /\ inst = NoInst
    /\ coll = NoColl
    /\ env = NoEnv

\* the query of the tick; a query that raises goes to the except clause
TickPoll ==
    /\ pc = "tick_poll"
    /\ \E ok \in BOOLEAN, matching \in SUBSET StudyIds :
        IF ok
        THEN \E q \in QueryResults(matching) :
                /\ tick' = [selected |-> q, next |-> 1, dispatched |-> {},
                            raised |-> None]
                /\ pc' = IF q = <<>> THEN "tick_sleep" ELSE "tick_run"
                /\ lastCall' = StoreCall("find", TRUE)
        ELSE /\ tick' = NoTick
             /\ pc' = "tick_sleep"
             /\ lastCall' = StoreCall("find", FALSE)
    /\ UNCHANGED <<variant, doc, locals, failStreak, resp, outcome, inst, coll,
                   env>>

\* for s in studies: process_study_request(s), inside the try of the loop:
\* a dispatch that raises leaves the for loop for the except clause
TickDispatch ==
    /\ pc = "tick_run"
    /\ tick.next <= Len(tick.selected)
    /\ LET s == tick.selected[tick.next] IN
       \E raises \in BOOLEAN :
        IF raises
        THEN /\ tick' = [tick EXCEPT !.dispatched = @ \cup {s}, !.raised = s]
             /\ pc' = "tick_" \o ExceptPc
             /\ lastCall' = Fault("dispatch")
        ELSE /\ tick' = [tick EXCEPT !.dispatched = @ \cup {s}, !.next = @ + 1]
             /\ pc' = IF tick.next < Len(tick.selected) THEN "tick_run"
                      ELSE "tick_" \o ReturnPc(variant)
             /\ lastCall' = Call("dispatch", s)
    /\ UNCHANGED <<variant, doc, locals, failStreak, resp, outcome, inst, coll,
                   env>>

TickSleep ==
    /\ pc = "tick_sleep"
    /\ pc' = "tick_poll"
    /\ lastCall' = Call("sleep", None)
    /\ UNCHANGED <<variant, doc, locals, failStreak, aside>>

TickNext ==
    \/ TickPoll
    \/ TickDispatch
    \/ TickSleep

TickSpec == TickInit /\ [][TickNext]_vars

\* ======================================================================
\* Two instances of the worker on one study: each runs one pass, from its
\* poll query to its finalize step; the steps of the two interleave at
\* every call to the store.  No call fails.
\* ======================================================================
Instances == {1, 2}

\* the Caption instance i records for a locator: its annotatedUrl is that
\* of the annotated copy instance i uploaded, under a key of its own
InstCaption(v, loc, i) ==
    [url |-> CaptionUrl(v, loc), finds |-> 0, annotatedUrl |-> i]

IdleInst ==
    [pc |-> "poll", study |-> NoStudy, req_ts |-> None, idx |-> 0,
     new_caps |-> <<>>, reread |-> NoReread, wrote |-> <<>>]

\* a study waiting for its analysis: flagged, with one pending request in
\* the queue variant
PairInit ==
    /\ variant \in Variants
    /\ \E locs \in LocatorLists :
            doc = [NewDoc(locs, variant) EXCEPT
                        !.analysisRequested = TRUE,
                        !.aiRequests = IF variant = "queue"
                                       THEN <<NewRequest(1)>> ELSE <<>>]
    /\ pc = "pair"
    /\ study = NoStudy
    /\ req_ts = None
    /\ idx = 0
    /\ finds = 0
    /\ new_caps = <<>>
    /\ finds_list = <<>>
    /\ summary = NoSummary
    /\ reread = NoReread
    /\ attempted = {}
    /\ lastCall = NoCall
    /\ failStreak = 0
    /\ resp = NoResponse
    /\ outcome = NoOutcome
    /\ tick = NoTick
    /\ inst = [i \in Instances |-> IdleInst]
    /\ coll = NoColl
    /\ env = NoEnv

PairFrame ==
    UNCHANGED <<variant, pc, locals, lastCall, failStreak, resp, outcome, tick, coll,
                env>>

\* the poll query of instance i: its copy of the study
InstPoll(i) ==
    /\ inst[i].pc = "poll"
    /\ inst' = [inst EXCEPT ![i] =
                    IF Eligible(variant, doc)
                    THEN [@ EXCEPT !.pc = "begin", !.study = doc]
                    ELSE [@ EXCEPT !.pc = "done"]]
    /\ UNCHANGED doc
    /\ PairFrame

\* the start of the pass: the first pending request (queue), previewCount
\* on first touch and the done-set (polling)
InstBegin(i) ==
    /\ inst[i].pc = "begin"
    /\ LET st == inst[i].study IN
       IF variant = "queue"
       THEN /\ inst' = [inst EXCEPT ![i] =
                    [@ EXCEPT !.pc = "loop",
                              !.req_ts = st.aiRequests[FirstPending(st.aiRequests)].requestedAt,
                              !.idx = NextIdx(variant, st, 1)]]
            /\ UNCHANGED doc
       ELSE /\ doc' = IF NeverSet(st)
                      THEN [doc EXCEPT !.previewCount = Len(st.locators)]
                      ELSE doc
            /\ inst' = [inst EXCEPT ![i] =
                    [@ EXCEPT !.pc = "loop",
                              !.study = IF NeverSet(st)
                                        THEN [st EXCEPT !.previewCount = Len(st.locators)]
                                        ELSE st,
                              !.idx = NextIdx(variant, st, 1)]]
    /\ PairFrame

\* one turn of the per-image loop: fetch, analyse, annotate, upload, append;
\* a failure of the annotation ends the pass of the June 7 worker
InstImage(i) ==
    /\ inst[i].pc = "loop"
    /\ inst[i].idx <= Len(inst[i].study.locators)
    /\ LET st == inst[i].study
           loc == st.locators[inst[i].idx]
       IN \E out \in {"ok", "failed"} \cup
                      (IF variant = "polling" THEN {"aborted"} ELSE {}) :
            inst' = [inst EXCEPT ![i] =
                IF out = "aborted" THEN [IdleInst EXCEPT !.pc = "done"]
                ELSE [@ EXCEPT
                        !.new_caps = IF out = "ok"
                                     THEN Append(@, InstCaption(variant, loc, i))
                                     ELSE @,
                        !.idx = NextIdx(variant, st, inst[i].idx + 1)]]
    /\ UNCHANGED doc
    /\ PairFrame

\* "if not new_caps: return"
InstEndLoop(i) ==
    /\ inst[i].pc = "loop"
    /\ inst[i].idx > Len(inst[i].study.locators)
    /\ inst' = [inst EXCEPT ![i].pc =
                    IF inst[i].new_caps = <<>> THEN "done" ELSE "writeback"]
    /\ UNCHANGED doc
    /\ PairFrame

\* summarise_study and the update_one of the write-back
InstWriteBack(i) ==
    /\ inst[i].pc = "writeback"
    /\ LET caps == inst[i].new_caps
           summ == Summarise(variant, [k \in 1..Len(caps) |-> 0], TRUE).result
       IN doc' = WrittenBack(variant, doc, inst[i].req_ts, caps, summ)
    /\ inst' = [inst EXCEPT ![i] =
                    [@ EXCEPT !.pc = "reread", !.wrote = inst[i].new_caps]]
    /\ PairFrame

InstReread(i) ==
    /\ inst[i].pc = "reread"
    /\ inst' = [inst EXCEPT ![i] =
                    [@ EXCEPT !.pc = "finalize", !.reread = Reread(variant, doc)]]
    /\ UNCHANGED doc
    /\ PairFrame

InstFinalize(i) ==
    /\ inst[i].pc = "finalize"
    /\ doc' = IF Done(variant, inst[i].reread)
              THEN [doc EXCEPT !.analysisRequested = FALSE]
              ELSE doc
    /\ inst' = [inst EXCEPT ![i] =
                    [IdleInst EXCEPT !.pc = "done", !.wrote = inst[i].wrote]]
    /\ PairFrame

PairPoll == \E i \in Instances : InstPoll(i)
PairBegin == \E i \in Instances : InstBegin(i)
PairImage == \E i \in Instances : InstImage(i)
PairEndLoop == \E i \in Instances : InstEndLoop(i)
PairWriteBack == \E i \in Instances : InstWriteBack(i)
PairReread == \E i \in Instances : InstReread(i)
PairFinalize == \E i \in Instances : InstFinalize(i)

PairNext ==
    \/ PairPoll
    \/ PairBegin
    \/ PairImage
    \/ PairEndLoop
    \/ PairWriteBack
    \/ PairReread
    \/ PairFinalize

PairSpec == PairInit /\ [][PairNext]_vars

\* ======================================================================
\* Many studies, one worker: a collection with one study more than the poll
\* query returns.  A study is "stuck" (eligible, and every image of it fails
\* in every pass), "ready" (eligible, its pass will succeed) or "done".
\* At least QueryLimit of the studies are stuck.
\* ======================================================================
CollIds == 1..(QueryLimit + 1)

EligibleIds == {s \in CollIds : coll[s] \in {"stuck", "ready"}}

CollInit ==
    /\ variant \in Variants
    /\ doc = NewDoc(<<>>, variant)
    /\ pc = "coll_poll"
    /\ study = NoStudy
    /\ req_ts = None
    /\ idx = 0
    /\ finds = 0
    /\ new_caps = <<>>
    /\ finds_list = <<>>
    /\ summary = NoSummary
    /\ reread = NoReread
    /\ attempted = {}
    /\ lastCall = NoCall
    /\ failStreak = 0
    /\ resp = NoResponse
    /\ outcome = NoOutcome
    /\ tick = [NoTick EXCEPT !.selected = {}]
    /\ inst = NoInst
    /\ coll \in {c \in [CollIds -> {"stuck", "ready"}] :
                    Cardinality({s \in CollIds : c[s] = "stuck"}) >= QueryLimit}
    /\ env = NoEnv

\* the poll query on the collection: at most QueryLimit eligible studies.
\* tick.selected is the set returned; the order in which the for loop
\* meets its members is not fixed by the query and is chosen at each dispatch
CollPoll ==
    /\ pc = "coll_poll"
    /\ \E ok \in BOOLEAN :
        IF ok
        THEN \E q \in QuerySets(EligibleIds) :
                /\ tick' = [selected |-> q, next |-> 1, dispatched |-> {},
                            raised |-> None]
                /\ pc' = IF q = {} THEN "coll_sleep" ELSE "coll_run"
                /\ lastCall' = StoreCall("find", TRUE)
        ELSE /\ tick' = [NoTick EXCEPT !.selected = {}]
             /\ pc' = "coll_sleep"
             /\ lastCall' = StoreCall("find", FALSE)
    /\ UNCHANGED <<variant, doc, locals, failStreak, resp, outcome, inst, coll,
                   env>>

\* the dispatch of the next selected study.  A stuck study collects no
\* Caption and its pass returns at "if not new_caps: return", the study
\* unchanged; the pass of a ready study completes it; either may raise.
CollDispatch ==
    /\ pc = "coll_run"
    /\ \E s \in tick.selected \ tick.dispatched, raises \in BOOLEAN :
        IF raises
        THEN /\ tick' = [tick EXCEPT !.dispatched = @ \cup {s}, !.raised = s]
             /\ pc' = "coll_" \o ExceptPc
             /\ lastCall' = Fault("dispatch")
             /\ coll' = coll
        ELSE /\ tick' = [tick EXCEPT !.dispatched = @ \cup {s}, !.next = @ + 1]
             /\ pc' = IF tick.dispatched \cup {s} # tick.selected THEN "coll_run"
                      ELSE "coll_" \o ReturnPc(variant)
             /\ lastCall' = Call("dispatch", s)
             /\ coll' = IF coll[s] = "ready" THEN [coll EXCEPT ![s] = "done"]
                        ELSE coll
    /\ UNCHANGED <<variant, doc, locals, failStreak, resp, outcome, inst, env>>

CollSleep ==
    /\ pc = "coll_sleep"
    /\ pc' = "coll_poll"
    /\ lastCall' = Call("sleep", None)
    /\ UNCHANGED <<variant, doc, locals, failStreak, aside>>

CollNext ==
    \/ CollPoll
    \/ CollDispatch
    \/ CollSleep

CollSpec == CollInit /\ [][CollNext]_vars

\* the worker keeps running
CollFairSpec == CollSpec /\ WF_vars(CollNext)

\* ======================================================================
\* The start of a program: the options present in its environment, the
\* module-level code that reads them, and the first thing it serves
\* ======================================================================
Programs == {"ai_worker", "dicom2jpeg"}

\* MONGODB_URI; S3_BUCKET_NAME; S3_REGION; S3_ACCESS_KEY_ID with
\* S3_SECRET_ACCESS_KEY; OPENAI_API_KEY
ConfigKeys == {"store", "bucket", "region", "credentials", "model_key"}

\* the options a program reads without a default and cannot work without
Required(prog) ==
    IF prog = "ai_worker" THEN {"bucket", "region", "credentials", "model_key"}
    ELSE {"bucket", "region", "credentials"}

Missing == Required(env.program) \ env.present

EnvInit ==
    /\ variant = "queue"
    /\ doc = NewDoc(<<>>, variant)
    /\ pc = "startup"
    /\ study = NoStudy
    /\ req_ts = None
    /\ idx = 0
    /\ finds = 0
    /\ new_caps = <<>>
    /\ finds_list = <<>>
    /\ summary = NoSummary
    /\ reread = NoReread
    /\ attempted = {}
    /\ lastCall = NoCall
    /\ failStreak = 0
    /\ resp = NoResponse
    /\ outcome = NoOutcome
    /\ tick = NoTick
    /\ inst = NoInst
    /\ coll = NoColl
    /\ \E prog \in Programs, present \in SUBSET ConfigKeys :
            env = [program |-> prog, present |-> present, served |-> "none"]

EnvFrame ==
    UNCHANGED <<variant, doc, locals, lastCall, failStreak, resp, outcome, tick,
                inst, coll>>

\* the module-level code.  dicom2jpeg raises RuntimeError unless all S3_*
\* options are set; ai_worker prints which options are missing, builds its
\* clients from whatever os.getenv returned and catches the error of its
\* database check; boto3.client with region_name = None may or may not raise
StartupResults(prog, present) ==
    IF prog = "dicom2jpeg"
    THEN (IF Required(prog) \subseteq present THEN {"serving"} ELSE {"stopped"})
    ELSE (IF "region" \in present THEN {"serving"} ELSE {"serving", "stopped"})

Startup ==
    /\ pc = "startup"
    /\ pc' \in StartupResults(env.program, env.present)
    /\ UNCHANGED env
    /\ EnvFrame

\* what one tick of the worker's poll loop comes to.  Without MONGODB_URI
\* the client connects to the default address, where a server may or may
\* not answer; without S3_REGION the client may or may not reach the bucket.
TickResults(present) ==
    (IF "store" \in present THEN {} ELSE {"tick_failed"})
    \cup (IF {"bucket", "credentials", "model_key"} \subseteq present
          THEN (IF "region" \in present THEN {"captioned"}
                ELSE {"captioned", "image_failed"})
          ELSE {"image_failed"})

\* a tick of the poll loop of ai_worker with a study to process
ServeTick ==
    /\ pc = "serving"
    /\ env.program = "ai_worker"
    /\ \E res \in TickResults(env.present) : env' = [env EXCEPT !.served = res]
    /\ UNCHANGED pc
    /\ EnvFrame

\* a conversion request to dicom2jpeg
ServeRequest ==
    /\ pc = "serving"
    /\ env.program = "dicom2jpeg"
    /\ env' = [env EXCEPT !.served = "converted"]
    /\ UNCHANGED pc
    /\ EnvFrame

EnvNext ==
    \/ Startup
    \/ ServeTick
    \/ ServeRequest

EnvSpec == EnvInit /\ [][EnvNext]_vars

\* ======================================================================
\* Properties
\* ======================================================================
Idle == pc \in {"poll", "sleep"}
InLoop == pc \in {"fetch", "analyse", "annotate", "upload"}

\* every Caption the store holds for the study, whichever shape holds it
StoredCaptions(d) ==
    {d.enhancedCaptions[i] : i \in 1..Len(d.enhancedCaptions)}
    \cup UNION {{r.interpretation[1].enhancedCaptions[i] :
                    i \in 1..Len(r.interpretation[1].enhancedCaptions)} :
                r \in {d.aiRequests[j] : j \in
                          {k \in 1..Len(d.aiRequests) :
                              d.aiRequests[k].interpretation # <<>>}}}

HasCaption(d, loc) ==
    \E c \in StoredCaptions(d) : c.url = CaptionUrl(variant, loc)

\* the locator has failed FailCeiling passes in a row and has no Caption
AtCeiling(loc) ==
    /\ loc = Watched
    /\ WatchedOnce
    /\ failStreak >= FailCeiling
    /\ ~HasCaption(doc, loc)

\* every image of the study is captioned or at the fail ceiling
Resolved ==
    \A i \in 1..Len(doc.locators) :
        HasCaption(doc, doc.locators[i]) \/ AtCeiling(doc.locators[i])

CeilingCount ==
    Cardinality({i \in 1..Len(doc.locators) : AtCeiling(doc.locators[i])})

\* the step is not one of the worker (every step of the worker moves its
\* position or makes a call): a request or an image was added to the study
ExternalStep == UNCHANGED <<pc, locals, lastCall>>

\* C1: queue variant: whenever no pass is in progress, analysisRequested is
\* false if and only if no request of the study is pending.
C1_FlagIffNoPending ==
    (variant = "queue" /\ Idle)
        => (~doc.analysisRequested <=> ~HasPending(doc.aiRequests))

\* C2: termination: with a store that never raises and a worker that is never
\* killed, a study with at least one image all of whose images are captioned
\* or at the fail ceiling gets analysisRequested = false after finitely many
\* ticks.
C2_Termination ==
    ([] ~lastCall.fault)
        => ((doc.locators # <<>> /\ Resolved) ~> ~doc.analysisRequested)

\* the Captions of the worker's copy of the study, taken at the poll
SnapshotHasCaption(loc) ==
    \E c \in StoredCaptions(study) : c.url = CaptionUrl(variant, loc)

\* the pass in progress was started on a study with nothing left to do:
\* no pending request, every image captioned or at the fail ceiling
StartedQuiescent ==
    /\ ~Idle
    /\ study.locators # <<>>
    /\ variant = "queue" => ~HasPending(study.aiRequests)
    /\ \A i \in 1..Len(study.locators) :
            \/ SnapshotHasCaption(study.locators[i])
            \/ AtCeiling(study.locators[i])

\* C3: idempotence: a pass over a study with no pending work, all of whose
\* images are captioned or at the fail ceiling, changes nothing in the
\* document store and uploads no blob.
C3_Idempotent ==
    [][(StartedQuiescent /\ ~ExternalStep)
            => (doc' = doc /\ lastCall'.op # "put")]_vars

\* the part of a pass in which its Captions are not yet in the store
BeforeWriteBack == InLoop \/ pc \in {"endloop", "summarise", "writeback"}

NoCaptionPositions ==
    {j \in 1..Len(study.locators) : ~HasCaption(doc, study.locators[j])}

\* a pass fetches only locators without a Caption, and all of them once its
\* loop has run to the end
DedupHolds ==
    /\ BeforeWriteBack => attempted \subseteq NoCaptionPositions
    /\ pc = "endloop" => attempted = NoCaptionPositions

C5_UniqueUrls ==
    variant = "polling" =>
        \A i, j \in 1..Len(doc.enhancedCaptions) :
            i # j => doc.enhancedCaptions[i].url # doc.enhancedCaptions[j].url

\* a step changed a Caption list or a summary of the store
ResultChanged ==
    \/ doc'.enhancedCaptions # doc.enhancedCaptions
    \/ doc'.aggregateSummary # doc.aggregateSummary
    \/ \E i \in 1..Len(doc.aiRequests) :
            doc'.aiRequests[i].interpretation # doc.aiRequests[i].interpretation

\* all Captions of the pass and its summary are in the store, together
BatchPresent(d) ==
    IF variant = "queue"
    THEN \E i \in 1..Len(d.aiRequests) :
            d.aiRequests[i].interpretation =
                <<[enhancedCaptions |-> new_caps, aggregateSummary |-> summary]>>
    ELSE /\ d.enhancedCaptions = doc.enhancedCaptions \o new_caps
         /\ d.aggregateSummary = summary

\* C6: batch atomicity: the only step that changes the stored Captions or
\* the stored summary is the write-back, and it puts all Captions of the
\* pass and the summary of the pass into the store in that one step; a kill
\* or an exception at any other point changes neither.
C6_BatchAtomic ==
    [][ResultChanged =>
            /\ pc = "writeback"
            /\ new_caps # <<>>
            /\ BatchPresent(doc')]_vars

C6_Witness ==
    /\ pc = "reread"
    /\ Len(new_caps) >= 2
    /\ \A i \in 1..Len(new_caps) : new_caps[i] \in StoredCaptions(doc)

\* C7: fail ceiling: a locator that has failed in FailCeiling passes in a row
\* is not fetched again (pc = "analyse": its fetch was just made).
C7_NoFetchAtCeiling == ~(pc = "analyse" /\ AtCeiling(Loc))

\* a pass of the polling worker has just returned normally
PassReturned ==
    /\ variant = "polling"
    /\ pc = "poll"
    /\ lastCall.op \in {"none", "update"}
    /\ ~lastCall.fault
    /\ doc.previewCount # None

\* C8: when a pass ends with (Captions) + (locators at the fail ceiling)
\* >= previewCount, at least one locator being at the ceiling, the pass has
\* set analysisRequested to false.
C8_FinalizeCountsFailed ==
    (/\ PassReturned
     /\ CeilingCount > 0
     /\ Len(doc.enhancedCaptions) + CeilingCount >= doc.previewCount)
        => ~doc.analysisRequested

\* positions fetched in this pass that produced no Caption
FailedNow ==
    {j \in attempted :
        \A i \in 1..Len(new_caps) :
            new_caps[i].url # CaptionUrl(variant, study.locators[j])}

\* some images succeeded, at least one failed, every failed one is below
\* the fail ceiling; previewCount is the number of locators of the study
Partial ==
    /\ new_caps # <<>>
    /\ variant = "polling" => study.previewCount = Len(study.locators)
    /\ FailedNow # {}
    /\ failStreak < FailCeiling
    /\ WatchedOnce
    /\ \A j \in FailedNow : study.locators[j] = Watched

\* at the finalize step of a partly successful pass the Captions are in the
\* store, and the step leaves analysisRequested true
KeepsOutstanding ==
    (pc = "finalize" /\ Partial) =>
        /\ \A i \in 1..Len(new_caps) : new_caps[i] \in StoredCaptions(doc)
        /\ doc'.analysisRequested

EmptyBatchFixed ==
    (pc = "writeback" /\ SumSeq(finds_list) = 0)
        => /\ summary.text = FixedSentence
           /\ lastCall.op \notin {"summarize", "summarize_failed"}

\* C10 as stated, for summarise_study of both workers.
C10_EmptyFindingsAnyWorker == EmptyBatchFixed

\* C10 amended: summarise_study of src/ai_worker.py (the queue worker)
\* returns the fixed sentence without a model call when the batch has no
\* finding.
C10_EmptyFindingsQueue == variant = "queue" => EmptyBatchFixed

C10_Witness ==
    /\ variant = "queue"
    /\ pc = "writeback"
    /\ Len(finds_list) >= 2
    /\ SumSeq(finds_list) = 0

PendingCount(reqs) ==
    Cardinality({i \in 1..Len(reqs) : reqs[i].status = "pending"})

\* the step is the successful write-back of the queue worker
QueueWriteBack == variant = "queue" /\ pc = "writeback" /\ pc' = "reread"

\* C11: one request per pass, first pending first: the write-back of
\* process_study_request on a study with k pending requests leaves k-1
\* pending and changes no request other than the first pending one; the
\* pass sets analysisRequested to false only when its study had exactly one
\* pending request.
C11_OnePerPass ==
    [][/\ QueueWriteBack =>
            /\ PendingCount(doc'.aiRequests) = PendingCount(doc.aiRequests) - 1
            /\ \A i \in 1..Len(doc.aiRequests) :
                    i # FirstPending(doc.aiRequests)
                        => doc'.aiRequests[i] = doc.aiRequests[i]
       /\ (variant = "queue" /\ pc = "finalize"
                /\ doc.analysisRequested /\ ~doc'.analysisRequested)
            => PendingCount(study.aiRequests) = 1]_vars

\* C12: scoped write-back: the write-back of process_study_request sets
\* status, interpretation and completedAt of the request the pass selected
\* and changes no other request of the study.
C12_ScopedWriteBack ==
    [][QueueWriteBack =>
            LET sel == FirstPending(study.aiRequests) IN
            /\ doc'.aiRequests[sel].status = "completed"
            /\ doc'.aiRequests[sel].completedAt
            /\ doc'.aiRequests[sel].interpretation =
                    <<[enhancedCaptions |-> new_caps, aggregateSummary |-> summary]>>
            /\ \A i \in 1..Len(doc.aiRequests) :
                    i # sel => doc'.aiRequests[i] = doc.aiRequests[i]]_vars

\* C13: previewCount is written only while it has never been set, to the
\* number of image locators the processor sees at that moment; once set, no
\* step changes it, also when the locator list has grown since or the stored
\* value is 0.
C13_PreviewCountFixed ==
    [][/\ doc.previewCount # None => doc'.previewCount = doc.previewCount
       /\ (doc.previewCount = None /\ doc'.previewCount # None)
            => (pc = "begin" /\ doc'.previewCount = Len(study.locators))]_vars

\* a later pass runs on a study whose stored previewCount is 0 and whose
\* locator list has grown since
C13_Witness ==
    /\ variant = "polling"
    /\ pc = "fetch"
    /\ study.previewCount = 0
    /\ doc.previewCount = 0
    /\ Len(study.locators) > 0

\* C14: a step takes analysisRequested from false to true only when it adds
\* a request to the study: no step of the processor and no poll tick does.
C14_FalseStaysFalse ==
    [][(~doc.analysisRequested /\ doc'.analysisRequested)
            => Len(doc'.aiRequests) > Len(doc.aiRequests)]_vars

\* the processor has set the flag to false, and a poll tick has run since
C14_Witness ==
    /\ ~doc.analysisRequested
    /\ StoredCaptions(doc) # {}
    /\ pc = "sleep"
    /\ lastCall.op = "find"

\* C15: frame of the processor: a step of the worker keeps the locator list,
\* keeps every request in its place with its requestedAt, and keeps every
\* Caption the store already holds.
C15_Frame ==
    [][~ExternalStep =>
            /\ doc'.locators = doc.locators
            /\ Len(doc'.aiRequests) = Len(doc.aiRequests)
            /\ \A i \in 1..Len(doc.aiRequests) :
                    doc'.aiRequests[i].requestedAt = doc.aiRequests[i].requestedAt
            /\ StoredCaptions(doc) \subseteq StoredCaptions(doc')]_vars

\* C16: per-image failure isolation: whatever happens to one image (short
\* of a kill of the process), the pass stays in its loop or reaches the end
\* of the loop, and keeps the Captions it has collected.
C16_FailureIsolated ==
    [][(InLoop /\ ~ExternalStep /\ ~lastCall'.fault) =>
            /\ pc' \in {"fetch", "analyse", "annotate", "upload", "endloop"}
            /\ Len(new_caps') >= Len(new_caps)
            /\ SubSeq(new_caps', 1, Len(new_caps)) = new_caps]_vars

\* the positions of a running worker
WorkerPcs ==
    {"poll", "sleep", "begin", "fetch", "analyse", "annotate", "upload",
     "endloop", "summarise", "writeback", "reread", "finalize"}

\* C17: the poll loop never stops on an error: the worker is always at a
\* position of the loop, after a store call that raised it is at the sleep
\* of the loop, and from the sleep it can start the next tick.
C17_LoopNeverStops ==
    /\ pc \in WorkerPcs
    /\ (lastCall.fault /\ lastCall.op # "restart") => pc = "sleep"
    /\ pc = "sleep" => ENABLED Sleep

\* a write of the pass raised and the loop caught it
C17_Witness ==
    /\ pc = "sleep"
    /\ lastCall.fault
    /\ lastCall.op = "update"

\* right after a summarizer call that failed, the pass is at its write-back
\* with the Captions it collected, and its summary is the fallback string
\* built from the findings of the batch
FallbackThenWriteBack ==
    lastCall.op = "summarize_failed" =>
        /\ pc = "writeback"
        /\ new_caps # <<>>
        /\ summary = [text |-> "fallback", of |-> finds_list]

\* C18 as stated, for summarise_study of every worker.
C18_FallbackAnyWorker == FallbackThenWriteBack

\* C18 amended: summarise_study of src/ai_worker.py (the queue worker)
\* recovers from a failed summarizer call with the fallback string, and the
\* pass goes on to its write-back.
C18_FallbackQueue == variant = "queue" => FallbackThenWriteBack

\* the write-back of a pass whose summarizer call failed has been made
C18_Witness ==
    /\ variant = "queue"
    /\ pc = "reread"
    /\ summary.text = "fallback"
    /\ \A i \in 1..Len(new_caps) : new_caps[i] \in StoredCaptions(doc)
    /\ \E i \in 1..Len(doc.aiRequests) :
            /\ doc.aiRequests[i].interpretation # <<>>
            /\ doc.aiRequests[i].interpretation[1].aggregateSummary = summary

\* C19: polling worker: when the processor sets analysisRequested to false,
\* every locator in the study's image list has a Caption or is at the fail
\* ceiling.
C19_FalseMeansResolved ==
    [][(variant = "polling" /\ pc = "finalize" /\ ~doc'.analysisRequested)
            => Resolved]_vars

\* the fail count the store holds for a locator: the study document has no
\* such field and no statement of either worker writes one
StoredFailCount(d, loc) == 0

\* C20: fail-count bookkeeping: the number of consecutive failed attempts on
\* a locator is in the store as soon as the attempt has failed (after one
\* failed attempt the stored count is 1).
C20_FailCountPersisted ==
    (WatchedOnce /\ failStreak > 0)
        => StoredFailCount(doc, Watched) = failStreak

\* the results a pass can leave in the store: Captions, summaries, request
\* statuses and the flag
StoredResults(d) ==
    <<d.enhancedCaptions, d.aggregateSummary, d.analysisRequested,
      [i \in 1..Len(d.aiRequests) |->
            <<d.aiRequests[i].status, d.aiRequests[i].interpretation>>]>>

\* C21: empty batch writes nothing: as long as a pass has collected no
\* Caption, up to and including its return, no step of it changes a
\* Caption, a summary, a request status or analysisRequested, and none
\* calls the summarizer.
C21_EmptyBatchWritesNothing ==
    [][(~Idle /\ new_caps = <<>> /\ new_caps' = <<>> /\ ~ExternalStep) =>
            /\ StoredResults(doc') = StoredResults(doc)
            /\ lastCall'.op \notin {"summarize", "summarize_failed"}]_vars

\* a pass over a study with images has just returned with an empty batch
C21_Witness ==
    /\ Idle
    /\ lastCall = NoCall
    /\ doc.locators # <<>>
    /\ failStreak > 0
    /\ StoredCaptions(doc) = {}

\* C22: retry of a failed image: a pass in which an image failed does not
\* store a Caption for it and leaves the study selected by the poll query,
\* so that a later tick attempts the image again.
C22_FailedImageRetried ==
    [][(~Idle /\ FailedNow # {} /\ ~ExternalStep) =>
            /\ \A j \in FailedNow :
                    HasCaption(doc', study.locators[j])
                        => HasCaption(doc, study.locators[j])
            /\ Eligible(variant, doc')]_vars

\* the findings of the Captions of a list, one findings-list per Caption
FindingsOf(caps) == [i \in 1..Len(caps) |-> caps[i].finds]

\* C23: the list of findings handed to the summarizer holds exactly one
\* findings-list per Caption of the pass, those of the captioned images.
C23_SummaryInputMatchesCaptions ==
    pc = "summarise" => finds_list = FindingsOf(new_caps)

\* C24: polling worker: after a write-back whose summarizer call succeeded,
\* the stored aggregateSummary is computed from the findings of all Captions
\* of the study (here for passes whose findings list matches their Captions).
C24_StudyWideSummary ==
    (/\ variant = "polling"
     /\ pc = "reread"
     /\ finds_list = FindingsOf(new_caps)
     /\ doc.aggregateSummary.text = "model")
        => doc.aggregateSummary.of = FindingsOf(doc.enhancedCaptions)

RealBoxes(bboxes) ==
    Cardinality({i \in 1..Len(bboxes) : bboxes[i] = "valid"})

\* C25: annotation tolerates bad boxes: whatever the bbox of each finding of
\* a parsed reply is (absent, null, not a list of 4), the image is captioned,
\* with one rectangle per well-formed bbox and none for the others.
C25_BadBoxesTolerated ==
    (pc = "imaged" /\ resp.parses) =>
        /\ outcome.kind = "captioned"
        /\ outcome.rectangles =
                RealBoxes(IF resp.hasFindings THEN resp.bboxes ELSE <<>>)

\* C26: the analyzer fails closed: an image is captioned only when the
\* reply of the model parsed and carried both its caption and its findings.
C26_AnalyzerFailsClosed ==
    (pc = "imaged" /\ outcome.kind = "captioned") =>
        (resp.parses /\ resp.hasCaption /\ resp.hasFindings)

\* C27: poll cadence: the loop comes back to its store query only from a
\* sleep (or from a restart of the process), after a tick that dispatched a
\* study as well as after one that found none or raised; never two queries
\* back to back.
C27_SleepBetweenQueries ==
    [][(pc' = "poll" /\ pc # "poll") =>
            (pc = "sleep" \/ lastCall'.op = "restart")]_vars

TickOver == pc \in {"tick_poll", "tick_sleep"}

\* C28: study-level failure containment: when a tick is over, every study
\* its query selected has been dispatched, also when the processing of one
\* of them raised.
C28_RemainingDispatched ==
    TickOver => \A i \in 1..Len(tick.selected) : tick.selected[i] \in tick.dispatched

\* C29: no lost request under concurrent enqueue: queue variant, with the
\* request path appending a pending request and setting the flag in one
\* atomic step at any moment, no reachable state has a pending request
\* while analysisRequested is false.
C29_NoLostRequest ==
    variant = "queue" => (HasPending(doc.aiRequests) => doc.analysisRequested)

\* the study has nothing left to analyse: no pending request (queue
\* variant), at least one image and none without a Caption (polling variant)
NothingRemains ==
    IF variant = "queue" THEN ~HasPending(doc.aiRequests)
    ELSE /\ doc.locators # <<>>
         /\ \A i \in 1..Len(doc.locators) : HasCaption(doc, doc.locators[i])

\* the process was killed and started again, the results of the pass are
\* stored, and the finalize update was not made
Recovering ==
    /\ lastCall.op = "restart"
    /\ doc.analysisRequested
    /\ NothingRemains

\* C30: crash recovery of the completion flag: if calls stop failing from
\* some moment on, then after a crash between the write-back and the
\* finalize update that leaves nothing to analyse, analysisRequested
\* eventually becomes false, unless new work arrives for the study.
C30_FlagRecoversAfterCrash ==
    (<>[] ~lastCall.fault)
        => (Recovering ~> (~doc.analysisRequested \/ ~NothingRemains))

\* C32: completed requests are immutable: no step changes the status, the
\* interpretation or the completedAt of a request that is completed; status
\* only moves from pending to completed.
C32_CompletedImmutable ==
    [][\A i \in 1..Len(doc.aiRequests) :
            doc.aiRequests[i].status = "completed"
                => doc'.aiRequests[i] = doc.aiRequests[i]]_vars

\* the processor has set the interpretation of the request (at least one
\* Caption, and the summary) and its completedAt
ResultSet(r) ==
    /\ r.interpretation # <<>>
    /\ Len(r.interpretation[1].enhancedCaptions) >= 1
    /\ r.completedAt

\* C33: request consistency: in every state a request is completed if and
\* only if it has its interpretation (one Caption or more, and the summary)
\* and its completedAt; a pending request has neither.
C33_RequestConsistent ==
    \A i \in 1..Len(doc.aiRequests) :
        LET r == doc.aiRequests[i] IN
        /\ r.status = "completed" <=> ResultSet(r)
        /\ r.status = "pending" => (r.interpretation = <<>> /\ ~r.completedAt)

\* a request completed by a write-back next to one that is still pending
C33_Witness ==
    /\ variant = "queue"
    /\ lastCall.op = "update"
    /\ pc = "reread"
    /\ \E i, j \in 1..Len(doc.aiRequests) :
            /\ doc.aiRequests[i].status = "completed"
            /\ doc.aiRequests[j].status = "pending"

BothDone == \A i \in Instances : inst[i].pc = "done"

\* C31: two instances on one study: when both passes are over, in any
\* interleaving, the stored results hold every Caption either pass wrote
\* back, and no two stored Captions have the same source url.
C31_TwoInstances ==
    BothDone =>
        /\ \A i \in Instances : \A k \in 1..Len(inst[i].wrote) :
                inst[i].wrote[k] \in StoredCaptions(doc)
        /\ \A c1, c2 \in StoredCaptions(doc) : c1.url = c2.url => c1 = c2

\* the study the others are compared with; any other would do as well
LastId == QueryLimit + 1

\* C34: no starvation by stuck studies: with calls that stop failing from
\* some moment on, every eligible study is eventually dispatched, also when
\* QueryLimit other studies stay eligible forever.
C34_NoStarvation ==
    (<>[] ~lastCall.fault)
        => ((LastId \in EligibleIds) ~> (LastId \in tick.dispatched))

\* C35: missing required configuration is fatal at startup: a program
\* started without one of its required options never serves a tick or a
\* request, so the lack never shows as a failed tick or a failed image.
C35_MissingConfigFatal ==
    Missing # {} => (pc \in {"startup", "stopped"} /\ env.served = "none")

====
